---- MODULE Spec2Model ----
(***************************************************************************)
(* A model of stack_pool<T, N> (src/exam/stack_pool.hpp): a vector of      *)
(* nodes {value, next} hosting several singly linked stacks addressed by   *)
(* 1-based handles, plus the list of free nodes threaded through the same  *)
(* next fields.  The handle 0 (end()) is the empty stack.                  *)
(*                                                                         *)
(* Every member function is an operator over the explicit pool state       *)
(* (P = the vector `pool`, F = `free_nodes`) returning a record            *)
(*   [pool, free_nodes, ret, err, pops, hang]                              *)
(* where err says that Invalid_input was thrown (AP_ERROR), ret is the     *)
(* returned value when nothing was thrown, pops counts the pops a          *)
(* free_stack performed and hang says that its loop never ends.  The pool  *)
(* a throwing call leaves behind is the pool at the throw.  The actions    *)
(* apply these operators to the state; the properties apply them to every  *)
(* reachable state and every argument.                                     *)
(***************************************************************************)
EXTENDS Integers, Sequences, FiniteSets, TLC

\* Largest length the vector `pool` may reach in the model.
MaxLen == 3
\* Number of stacks the callers of the model keep.
NStacks == 2

\* The values of type T that callers push.
Values == {10, 20, 30}

VARIABLES
  pool,        \* std::vector<node_t> pool: a sequence of [value, next]
  free_nodes,  \* stack_type free_nodes: head of the list of free nodes
  heads,       \* the callers' stack handles: heads[s] is stack s's current head
  hist,        \* history: hist[s] = the values pushed on stack s and not yet popped
  script       \* progress through the scenario push 10, push 20, pop, pop, push 30

vars == <<pool, free_nodes, heads, hist, script>>

-----------------------------------------------------------------------------
(* The class's functions *)

\* stack_type end() const noexcept { return stack_type(0); }
end == 0

\* A slip: the handle one past the vector let through.
CUSTOM_POSITIVE_wide(P, a) == (a >= end) /\ (a <= Len(P) + 1)

\* A slip: the check of the empty stack's handle made strict.
CUSTOM_POSITIVE_strict(P, a) == (a > end) /\ (a <= Len(P))

\* The condition of AP_ERROR_CUSTOM_POSITIVE(a); stack_type is unsigned.
CUSTOM_POSITIVE(P, a) == (a >= end) /\ (a <= Len(P))

\* A slip: the last node's handle taken for one past the vector.
CUSTOM_STRICT_POSITIVE_short(P, a) == (a > end) /\ (a < Len(P))

\* The condition of AP_ERROR_CUSTOM_STRICT_POSITIVE(a).
CUSTOM_STRICT_POSITIVE(P, a) == (a > end) /\ (a <= Len(P))

\* node_t(X&& val, N next)
node_t(val, nxt) == [value |-> val, next |-> nxt]

\* node(x) is pool[x - 1] of a 0-based vector; sequences here are 1-based.
node(P, x) == P[(x - 1) + 1]

\* What a call returns: the pool after it, the value returned, thrown or not.
Returned(P, F, r) ==
  [pool |-> P, free_nodes |-> F, ret |-> r, err |-> FALSE, pops |-> 0,
   hang |-> FALSE]

Thrown(P, F) ==
  [pool |-> P, free_nodes |-> F, ret |-> 0, err |-> TRUE, pops |-> 0,
   hang |-> FALSE]

\* stack_type new_stack() noexcept { return end(); }
new_stack == end

\* bool empty(stack_type x) const
empty(P, F, x) ==
  IF ~CUSTOM_POSITIVE(P, x) THEN Thrown(P, F)
  ELSE Returned(P, F, x = end)

\* T& value(stack_type x)
value(P, F, x) ==
  IF ~CUSTOM_STRICT_POSITIVE(P, x) THEN Thrown(P, F)
  ELSE Returned(P, F, node(P, x).value)

\* stack_type& next(stack_type x)
next(P, F, x) ==
  IF ~CUSTOM_STRICT_POSITIVE(P, x) THEN Thrown(P, F)
  ELSE Returned(P, F, node(P, x).next)

\* iterator begin(stack_type x): the iterator's `current`
begin(P, F, x) ==
  IF ~CUSTOM_POSITIVE(P, x) THEN Thrown(P, F)
  ELSE Returned(P, F, x)

\* A slip: reserve(n) written as resize(n), which sets the vector's length.
reserve_resizes(P, F, n) ==
  IF ~(n >= end) THEN Thrown(P, F)
  ELSE Returned([i \in 1..n |-> IF i <= Len(P) THEN P[i] ELSE node_t(10, end)], F, 0)

\* void reserve(size_type n): pool.reserve(n) gives the vector room for n
\* nodes; its nodes and its length stay (the capacity is not part of the model).
reserve(P, F, n) ==
  IF ~(n >= end) THEN Thrown(P, F)
  ELSE Returned(P, F, 0)

\* A slip: the reused node's next is not set to the head.
_push_next_unset(P, F, val, head) ==
  IF F = end
    THEN LET Q == Append(P, node_t(val, head)) IN Returned(Q, F, Len(Q))
    ELSE Returned([P EXCEPT ![F].value = val], P[F].next, F)

\* A slip: free_nodes is not moved on to the next free node.
_push_free_nodes_kept(P, F, val, head) ==
  IF F = end
    THEN LET Q == Append(P, node_t(val, head)) IN Returned(Q, F, Len(Q))
    ELSE Returned([P EXCEPT ![F] = node_t(val, head)], F, F)

\* stack_type _push(X&& val, stack_type head)
\* (AP_ASSERT(head >= end()) cannot fail for an unsigned head.)
_push(P, F, val, head) ==
  LET e == empty(P, F, F) IN
  IF e.err THEN e
  ELSE IF e.ret
    THEN LET Q == Append(P, node_t(val, head)) IN Returned(Q, F, Len(Q))
    ELSE LET new_head == F
             n == next(P, F, F)
         IN  IF n.err THEN n
             ELSE Returned([P EXCEPT ![(new_head - 1) + 1] = node_t(val, head)],
                           n.ret, new_head)

\* stack_type push(const T& val, stack_type head)
push(P, F, val, head) ==
  IF ~CUSTOM_POSITIVE(P, head) THEN Thrown(P, F)
  ELSE _push(P, F, val, head)

\* A slip: the popped node is not linked in front of the free nodes.
pop_unlinked(P, F, x) ==
  IF ~CUSTOM_STRICT_POSITIVE(P, x) THEN Thrown(P, F)
  ELSE IF ~(x # F) THEN Thrown(P, F)
  ELSE Returned(P, x, node(P, x).next)

\* A slip: the new head is read after next(x) has been overwritten.
pop_late_read(P, F, x) ==
  IF ~CUSTOM_STRICT_POSITIVE(P, x) THEN Thrown(P, F)
  ELSE IF ~(x # F) THEN Thrown(P, F)
  ELSE Returned([P EXCEPT ![(x - 1) + 1].next = F], x, F)

\* A slip: the head of the free nodes is not refused.
pop_free_nodes_allowed(P, F, x) ==
  IF ~CUSTOM_STRICT_POSITIVE(P, x) THEN Thrown(P, F)
  ELSE LET new_head == node(P, x).next
       IN  Returned([P EXCEPT ![(x - 1) + 1].next = F], x, new_head)

\* stack_type pop(stack_type x)
pop(P, F, x) ==
  IF ~CUSTOM_STRICT_POSITIVE(P, x) THEN Thrown(P, F)
  ELSE IF ~(x # F) THEN Thrown(P, F)
  ELSE LET new_head == node(P, x).next
       IN  Returned([P EXCEPT ![(x - 1) + 1].next = F], x, new_head)

\* The loop of free_stack: while (!empty(x)) x = this->pop(x);
\* n counts the pops done so far.  The loop is deterministic, so it never
\* ends exactly when it comes back to a (pool, free_nodes, x) it has been in:
\* seen holds the ones it has been in.
RECURSIVE free_loop(_, _, _, _, _)
free_loop(P, F, x, n, seen) ==
  LET e == empty(P, F, x) IN
  IF <<P, F, x>> \in seen THEN [Returned(P, F, x) EXCEPT !.pops = n, !.hang = TRUE]
  ELSE IF e.err THEN [e EXCEPT !.pops = n]
  ELSE IF e.ret THEN [Returned(P, F, x) EXCEPT !.pops = n]
  ELSE LET r == pop(P, F, x) IN
       IF r.err THEN [r EXCEPT !.pops = n]
       ELSE free_loop(r.pool, r.free_nodes, r.ret, n + 1, seen \cup {<<P, F, x>>})

\* A slip: an `if` for the `while`, so that one node only is popped.
free_stack_once(P, F, x) ==
  IF ~CUSTOM_STRICT_POSITIVE(P, x) THEN Thrown(P, F)
  ELSE IF ~(x # F) THEN Thrown(P, F)
  ELSE [pop(P, F, x) EXCEPT !.pops = 1]

\* stack_type free_stack(stack_type x)
free_stack(P, F, x) ==
  IF ~CUSTOM_STRICT_POSITIVE(P, x) THEN Thrown(P, F)
  ELSE IF ~(x # F) THEN Thrown(P, F)
  ELSE free_loop(P, F, x, 0, {})

\* The loop of print_stack over the iterator:
\*   auto start = begin(x); while (start != end(x)) { *start; ++start; }
\* as the sequence of the values dereferenced; operator* is value(current),
\* operator++ is current = next(current).
RECURSIVE iterate(_, _, _)
iterate(P, F, current) ==
  IF ~(current # end) THEN <<>>
  ELSE <<value(P, F, current).ret>> \o iterate(P, F, next(P, F, current).ret)

\* What the loop over an iterator has done when it stops: the values written,
\* the handles dereferenced, whether a call threw, whether the loop never ends.
Walked(P, F, out, seen, e, h) ==
  [pool |-> P, free_nodes |-> F, ret |-> out, steps |-> Len(out),
   derefs |-> seen, err |-> e, pops |-> 0, hang |-> h]

\* A slip: the loop advances the iterator before it dereferences it.
RECURSIVE print_loop_advance_first(_, _, _, _, _)
print_loop_advance_first(P, F, current, out, seen) ==
  IF ~(current # end) THEN Walked(P, F, out, seen, FALSE, FALSE)
  ELSE IF current \in seen THEN Walked(P, F, out, seen, FALSE, TRUE)
  ELSE LET n == next(P, F, current) IN
       IF n.err THEN Walked(n.pool, n.free_nodes, out, seen, TRUE, FALSE)
       ELSE LET v == value(n.pool, n.free_nodes, n.ret) IN
            IF v.err
              THEN Walked(v.pool, v.free_nodes, out, seen \cup {n.ret}, TRUE, FALSE)
              ELSE print_loop_advance_first(v.pool, v.free_nodes, n.ret,
                                            Append(out, v.ret), seen \cup {current})

\* while (start != end(x)) { std::cout << *start << " "; ++start; }
\* with operator* = pool->value(current), operator++ = current = pool->next(current)
\* and operator!= comparing the two current handles; end(x) holds end().
\* A handle met twice means the loop runs for ever.
RECURSIVE print_loop(_, _, _, _, _)
print_loop(P, F, current, out, seen) ==
  IF ~(current # end) THEN Walked(P, F, out, seen, FALSE, FALSE)
  ELSE IF current \in seen THEN Walked(P, F, out, seen, FALSE, TRUE)
  ELSE LET v == value(P, F, current) IN
       IF v.err
         THEN Walked(v.pool, v.free_nodes, out, seen \cup {current}, TRUE, FALSE)
         ELSE LET n == next(v.pool, v.free_nodes, current) IN
              IF n.err
                THEN Walked(n.pool, n.free_nodes, Append(out, v.ret),
                            seen \cup {current}, TRUE, FALSE)
                ELSE print_loop(n.pool, n.free_nodes, n.ret,
                                Append(out, v.ret), seen \cup {current})

\* void print_stack(const stack_type x) const: the values it writes, in order
print_stack(P, F, x) ==
  IF ~CUSTOM_POSITIVE(P, x) THEN Walked(P, F, <<>>, {}, TRUE, FALSE)
  ELSE LET start == begin(P, F, x) IN
       IF start.err THEN Walked(start.pool, start.free_nodes, <<>>, {}, TRUE, FALSE)
       ELSE print_loop(start.pool, start.free_nodes, start.ret, <<>>, {})

-----------------------------------------------------------------------------
(* The callers *)

Stacks == 1..Len(heads)

\* Every handle value a caller can pass: all that are in range and one that is not.
Handles == 0..(Len(pool) + 1)

\* The scenario, on stack 1 of a pool never used before:
\*   1 --new_stack--> 2 --push 10--> 3 --push 20--> 4 --pop--> 5 --pop--> 6
\*     --push 30--> 7; any other call that changes something leaves it (0).
Scripted(op, s, v) ==
  IF s # 1 THEN 0
  ELSE IF script = 1 /\ op = "new_stack" THEN 2
  ELSE IF script = 2 /\ op = "push" /\ v = 10 THEN 3
  ELSE IF script = 3 /\ op = "push" /\ v = 20 THEN 4
  ELSE IF script = 4 /\ op = "pop" THEN 5
  ELSE IF script = 5 /\ op = "pop" THEN 6
  ELSE IF script = 6 /\ op = "push" /\ v = 30 THEN 7
  ELSE 0

Init ==
  /\ pool = <<>>
  /\ free_nodes = end
  /\ heads = <<>>
  /\ hist = <<>>
  /\ script = 1

\* A push can be modelled as long as the vector stays within MaxLen.
Room == free_nodes # end \/ Len(pool) < MaxLen

\* s = new_stack(): a caller starts to keep one more stack.
NewStack ==
  /\ Len(heads) < NStacks
  /\ heads' = Append(heads, new_stack)
  /\ hist' = Append(hist, <<>>)
  /\ script' = Scripted("new_stack", Len(heads) + 1, 0)
  /\ UNCHANGED <<pool, free_nodes>>

\* What a call r of the keeper of stack s (s = 0: of nobody's stack) leaves:
\* the pool as the call left it, and the stack's new head when it returned one.
Leaves(s, r) ==
  /\ pool' = r.pool
  /\ free_nodes' = r.free_nodes
  /\ heads' = IF s # 0 /\ ~r.err THEN [heads EXCEPT ![s] = r.ret] ELSE heads

\* push(v, h)
DoPush(s, v, h) ==
  LET r == push(pool, free_nodes, v, h) IN
  /\ Leaves(s, r)
  /\ hist' = IF s # 0 /\ ~r.err THEN [hist EXCEPT ![s] = Append(@, v)] ELSE hist
  /\ script' = IF r.err THEN script ELSE Scripted("push", s, v)

\* pop(h)
DoPop(s, h) ==
  LET r == pop(pool, free_nodes, h) IN
  /\ Leaves(s, r)
  /\ hist' = IF s # 0 /\ ~r.err
             THEN [hist EXCEPT ![s] = SubSeq(@, 1, Len(@) - 1)] ELSE hist
  /\ script' = IF r.err THEN script ELSE Scripted("pop", s, 0)

\* free_stack(h); a call whose loop never ends has no state after it.
DoFree(s, h) ==
  LET r == free_stack(pool, free_nodes, h) IN
  /\ ~r.hang
  /\ Leaves(s, r)
  /\ hist' = IF s # 0 /\ ~r.err THEN [hist EXCEPT ![s] = <<>>] ELSE hist
  /\ script' = IF r.err /\ r.pops = 0 THEN script ELSE Scripted("free_stack", s, 0)

\* The calls of a stack's keeper, on the stack's current head.
PushLive(s, v) == Room /\ DoPush(s, v, heads[s])

PopLive(s) == DoPop(s, heads[s])

FreeLive(s) == DoFree(s, heads[s])

\* The const member functions: whatever they return, they change nothing.
Empty(h) == empty(pool, free_nodes, h).pool = pool /\ UNCHANGED vars

Value(h) == value(pool, free_nodes, h).pool = pool /\ UNCHANGED vars

NextOf(h) == next(pool, free_nodes, h).pool = pool /\ UNCHANGED vars

Begin(h) == begin(pool, free_nodes, h).pool = pool /\ UNCHANGED vars

\* print_stack(h)
PrintStack(h) == print_stack(pool, free_nodes, h).pool = pool /\ UNCHANGED vars

\* reserve(n)
Reserve(n) ==
  LET r == reserve(pool, free_nodes, n) IN
  /\ pool' = r.pool
  /\ free_nodes' = r.free_nodes
  /\ UNCHANGED <<heads, hist, script>>

\* Callers that keep to their stacks' current heads.
Next ==
  \/ NewStack
  \/ \E s \in Stacks, v \in Values : PushLive(s, v)
  \/ \E s \in Stacks : PopLive(s)
  \/ \E s \in Stacks : FreeLive(s)
  \/ \E h \in Handles : Empty(h)
  \/ \E h \in Handles : Value(h)
  \/ \E h \in Handles : NextOf(h)
  \/ \E h \in Handles : Begin(h)
  \/ \E s \in Stacks : PrintStack(heads[s])
  \/ \E n \in 0..MaxLen : Reserve(n)

Spec == Init /\ [][Next]_vars

\* Callers that pass any handle at all, stale and made up ones too.
PushAny(v, h) == Room /\ DoPush(0, v, h)

PopAny(h) == DoPop(0, h)

FreeAny(h) == DoFree(0, h)

NextAny ==
  \/ \E v \in Values, h \in Handles : PushAny(v, h)
  \/ \E h \in Handles : PopAny(h)
  \/ \E h \in Handles : FreeAny(h)
  \/ \E n \in 0..MaxLen : Reserve(n)

SpecAny == Init /\ [][NextAny]_vars

-----------------------------------------------------------------------------
(* What the properties speak of *)

\* Longest run of pushes followed by as many pops that is tried on a state.
MaxRound == 2

\* The handles met from h along the next fields up to the empty stack (at most
\* one more than there are nodes, should the fields run in a circle).
RECURSIVE ChainUpTo(_, _, _)
ChainUpTo(P, h, n) ==
  IF h = end \/ n = 0 THEN <<>>
  ELSE <<h>> \o ChainUpTo(P, P[h].next, n - 1)

Chain(P, h) == ChainUpTo(P, h, Len(P) + 1)

\* The slots reachable from h.
Slots(P, h) == {Chain(P, h)[i] : i \in 1..Len(Chain(P, h))}

Reverse(q) == [i \in 1..Len(q) |-> q[Len(q) + 1 - i]]

\* The vector as the code indexes it, from 0.
ZeroBased(P) == [i \in 0..(Len(P) - 1) |-> P[i + 1]]

\* n times: read value(h), then h = pop(h).  The values read and the last head.
RECURSIVE Drain(_, _, _, _)
Drain(P, F, h, n) ==
  IF n = 0 THEN [vals |-> <<>>, ret |-> h, err |-> FALSE]
  ELSE LET v == value(P, F, h)
           r == pop(P, F, h)
       IN  IF v.err \/ r.err THEN [vals |-> <<>>, ret |-> h, err |-> TRUE]
           ELSE LET d == Drain(r.pool, r.free_nodes, r.ret, n - 1)
                IN  [vals |-> <<v.ret>> \o d.vals, ret |-> d.ret, err |-> d.err]

\* h = push(v, h) for each v of vs in turn.
RECURSIVE PushAll(_, _, _, _)
PushAll(P, F, h, vs) ==
  IF vs = <<>> THEN Returned(P, F, h)
  ELSE LET r == push(P, F, Head(vs), h)
       IN  IF r.err THEN r ELSE PushAll(r.pool, r.free_nodes, r.ret, Tail(vs))

\* h = pop(h), n times.
RECURSIVE PopTimes(_, _, _, _)
PopTimes(P, F, h, n) ==
  IF n = 0 THEN Returned(P, F, h)
  ELSE LET r == pop(P, F, h)
       IN  IF r.err THEN r ELSE PopTimes(r.pool, r.free_nodes, r.ret, n - 1)

\* The pushes of vs on h and then as many pops.
RoundTrip(P, F, h, vs) ==
  LET a == PushAll(P, F, h, vs)
  IN  IF a.err THEN a ELSE PopTimes(a.pool, a.free_nodes, a.ret, Len(vs))

\* The runs of values tried: a value of T, up to MaxRound times (push and pop
\* store and keep values, they never read them).
Runs == {[i \in 1..n |-> v] : n \in 0..MaxRound, v \in Values}

-----------------------------------------------------------------------------
(* The properties *)

\* C1 (LIFO): whatever calls on this and the other stacks came before, reading
\* value(head) and popping, as often as there are values pushed on a stack and
\* not yet popped, reads these values last pushed first, throws nothing, and
\* the last pop returns the empty stack.
C1_LIFO ==
  \A s \in Stacks :
    LET d == Drain(pool, free_nodes, heads[s], Len(hist[s]))
    IN  ~d.err /\ d.vals = Reverse(hist[s]) /\ d.ret = end

\* Two different values pushed on a stack whose nodes are not in the order of
\* the vector (a popped node was used again), beside another stack in use.
C1_Witness ==
  \E s, t \in Stacks :
    /\ s # t /\ hist[t] # <<>>
    /\ Len(hist[s]) = 2 /\ hist[s][1] # hist[s][2]
    /\ heads[s] < pool[heads[s]].next

\* C2 as claimed: free_stack on the current head of any stack, the empty one
\* too, ends, throws nothing and returns the empty stack.
C2_Original ==
  \A s \in Stacks :
    LET r == free_stack(pool, free_nodes, heads[s])
    IN  ~r.hang /\ ~r.err /\ r.ret = end

\* C2 as amended: free_stack on the current head of a stack always ends; on a
\* stack that is not empty it throws nothing, pops every node of the stack and
\* returns the empty stack; on the empty stack it throws Invalid_input and
\* leaves the pool as it was.
C2_FreeStackReturns ==
  \A s \in Stacks :
    LET r == free_stack(pool, free_nodes, heads[s])
    IN  /\ ~r.hang
        /\ heads[s] # end =>
             ~r.err /\ r.ret = end /\ r.pops = Len(Chain(pool, heads[s]))
        /\ heads[s] = end =>
             r.err /\ r.pool = pool /\ r.free_nodes = free_nodes

\* A stack of three nodes, which free_stack frees with three pops.
C2_Witness ==
  \E s \in Stacks :
    /\ Len(hist[s]) = 3
    /\ free_stack(pool, free_nodes, heads[s]).pops = 3

\* C3: after free_stack(h) on a stack's head every slot the stack held is
\* among the free nodes, and the next push takes one of them; any push made
\* while there are free nodes returns a slot the vector has already and leaves
\* its length alone, so that only a push without free nodes makes it longer.
C3_FreedSlotsReused ==
  /\ \A s \in Stacks : heads[s] # end =>
       LET r == free_stack(pool, free_nodes, heads[s])
       IN  /\ Slots(pool, heads[s]) \subseteq Slots(r.pool, r.free_nodes)
           /\ \A v \in Values :
                LET q == push(r.pool, r.free_nodes, v, r.ret)
                IN  q.ret \in Slots(pool, heads[s]) /\ Len(q.pool) = Len(pool)
  /\ \A s \in Stacks, v \in Values :
       LET q == push(pool, free_nodes, v, heads[s])
       IN  /\ free_nodes # end => q.ret \in 1..Len(pool) /\ Len(q.pool) = Len(pool)
           /\ Len(q.pool) # Len(pool) => free_nodes = end /\ Len(q.pool) = Len(pool) + 1

\* A stack of two nodes to free while another node is free already.
C3_Witness ==
  \E s \in Stacks :
    /\ Len(Chain(pool, heads[s])) = 2
    /\ free_nodes # end
    /\ Len(Chain(free_stack(pool, free_nodes, heads[s]).pool,
                 free_stack(pool, free_nodes, heads[s]).free_nodes)) = 3

\* C4: two stacks never hold a slot in common, and a push on one leaves the
\* value and the next field of every slot of the other as they were, hence
\* the values read from the other's head too.
C4_StacksIndependent ==
  \A a, b \in Stacks : a # b =>
    /\ Slots(pool, heads[a]) \cap Slots(pool, heads[b]) = {}
    /\ \A v \in Values :
         LET r == push(pool, free_nodes, v, heads[a])
         IN  /\ ~r.err
             /\ \A x \in Slots(pool, heads[b]) : r.pool[x] = pool[x]
             /\ iterate(r.pool, r.free_nodes, heads[b])
                  = iterate(pool, free_nodes, heads[b])

\* Two stacks in use and a free node, which a push on the first one takes.
C4_Witness ==
  \E a, b \in Stacks :
    /\ a # b /\ heads[a] # end /\ heads[b] # end /\ free_nodes # end
    /\ \A v \in Values : push(pool, free_nodes, v, heads[a]).ret = free_nodes

\* C5: pushing up to MaxRound values on a stack's head and popping as many
\* times throws nothing and returns that head, and leaves the chain of handles
\* of every stack as it was.
C5_RoundTrip ==
  \A s \in Stacks, vs \in Runs :
    \A r \in {RoundTrip(pool, free_nodes, heads[s], vs)} :
      /\ ~r.err
      /\ r.ret = heads[s]
      /\ \A t \in Stacks : Chain(r.pool, heads[t]) = Chain(pool, heads[t])

\* A round trip of two pushes on a stack in use that takes the one free node,
\* makes the vector longer and leaves one more free node.
C5_Witness ==
  \E s \in Stacks, vs \in Runs :
    LET r == RoundTrip(pool, free_nodes, heads[s], vs)
    IN  /\ Len(vs) = 2 /\ heads[s] # end
        /\ free_nodes # end /\ pool[free_nodes].next = end
        /\ Len(r.pool) = Len(pool) + 1
        /\ Len(Chain(r.pool, r.free_nodes)) = 2

\* C6 as claimed.  On a pool never used: h0 = new_stack(), h1 = push(10, h0),
\* h2 = push(20, h1); iterating from h2 gives 20, 10; pop(h2) returns h1;
\* pop(h1) returns the empty stack; push(30, empty stack) then returns h2, the
\* slot the first pop gave up, and the vector keeps its length 2.
C6_Original ==
  /\ script = 3 => heads[1] = 1
  /\ script = 4 => heads[1] = 2 /\ iterate(pool, free_nodes, heads[1]) = <<20, 10>>
  /\ script = 5 => heads[1] = 1
  /\ script = 6 => heads[1] = end
  /\ script = 7 => heads[1] = 2 /\ Len(pool) = 2

\* C6 as amended: the same, but push(30, empty stack) returns h1 (handle 1),
\* the slot the second, latest pop gave up; the vector keeps its length 2.
C6_Scenario ==
  /\ script = 3 => heads[1] = 1
  /\ script = 4 => heads[1] = 2 /\ iterate(pool, free_nodes, heads[1]) = <<20, 10>>
  /\ script = 5 => heads[1] = 1 /\ free_nodes = 2
  /\ script = 6 => heads[1] = end /\ free_nodes = 1
  /\ script = 7 => heads[1] = 1 /\ Len(pool) = 2 /\ free_nodes = 2

\* The scenario has been gone through to its last push.
C6_Witness ==
  script = 7 /\ iterate(pool, free_nodes, heads[1]) = <<30>>

\* C7: value(h), next(h) and pop(h) throw when h is the empty stack or lies
\* past the vector; value(h) and next(h) throw only then, and otherwise give
\* the fields of the node at position h - 1 counted from 0.
C7_StrictHandles ==
  \A h \in Handles :
    LET bad == (h = end \/ h > Len(pool))
        v == value(pool, free_nodes, h)
        n == next(pool, free_nodes, h)
        p == pop(pool, free_nodes, h)
    IN  /\ v.err <=> bad
        /\ n.err <=> bad
        /\ bad => p.err
        /\ ~bad => /\ v.ret = ZeroBased(pool)[h - 1].value
                   /\ n.ret = ZeroBased(pool)[h - 1].next

\* A pool of three nodes with a free node, where value and next are answered
\* for the last node and pop is refused for the empty stack.
C7_Witness ==
  /\ Len(pool) = 3 /\ free_nodes # end
  /\ ~value(pool, free_nodes, 3).err /\ ~next(pool, free_nodes, 3).err
  /\ pop(pool, free_nodes, end).err

\* C8: while there are free nodes, pop(free_nodes) and free_stack(free_nodes)
\* throw.
C8_FreeHeadRefused ==
  free_nodes # end =>
    /\ pop(pool, free_nodes, free_nodes).err
    /\ free_stack(pool, free_nodes, free_nodes).err

\* Two free nodes; the handle popped last is refused.
C8_Witness ==
  /\ free_nodes # end /\ pool[free_nodes].next # end
  /\ pop(pool, free_nodes, free_nodes).err

\* C9: a call that throws leaves the vector and free_nodes as they were, and
\* free_stack throws only before its first pop.
C9_FailureLeavesPool ==
  \A h \in Handles :
    LET Same(r) == r.err => r.pool = pool /\ r.free_nodes = free_nodes
        f == free_stack(pool, free_nodes, h)
    IN  /\ \A v \in Values : Same(push(pool, free_nodes, v, h))
        /\ Same(pop(pool, free_nodes, h))
        /\ Same(empty(pool, free_nodes, h))
        /\ Same(value(pool, free_nodes, h))
        /\ Same(next(pool, free_nodes, h))
        /\ Same(begin(pool, free_nodes, h))
        /\ Same(f)
        /\ f.err => f.pops = 0

\* C10: empty(h) and push(v, h) throw exactly when h lies past the vector;
\* empty(h) is true exactly for the empty stack, which is always accepted.
C10_PermissiveHandles ==
  \A h \in Handles :
    LET e == empty(pool, free_nodes, h)
    IN  /\ e.err <=> h > Len(pool)
        /\ ~e.err => (e.ret <=> h = end)
        /\ \A v \in Values : push(pool, free_nodes, v, h).err <=> h > Len(pool)
        /\ h = end => ~e.err /\ e.ret

\* A pool in use: the last node's handle is accepted and is not empty, the
\* handle after it is refused.
C10_Witness ==
  /\ Len(pool) >= 2
  /\ ~empty(pool, free_nodes, Len(pool)).err
  /\ ~empty(pool, free_nodes, Len(pool)).ret
  /\ empty(pool, free_nodes, Len(pool) + 1).err
  /\ \A v \in Values : push(pool, free_nodes, v, Len(pool) + 1).err

\* C11: a push(v, head) that throws nothing, with no free node, appends the
\* node {v, head}, returns the new length of the vector and leaves free_nodes
\* the empty stack; with free nodes it keeps the length, returns the old
\* free_nodes, makes free_nodes the old next(free_nodes) and the returned slot
\* {v, head}.  No other slot changes either way.
C11_PushEffect ==
  \A h \in Handles, v \in Values :
    \A r \in {push(pool, free_nodes, v, h)} :
      ~r.err =>
        /\ free_nodes = end =>
             /\ Len(r.pool) = Len(pool) + 1
             /\ r.ret = Len(r.pool)
             /\ r.free_nodes = end
        /\ free_nodes # end =>
             /\ Len(r.pool) = Len(pool)
             /\ r.ret = free_nodes
             /\ r.free_nodes = pool[free_nodes].next
        /\ r.pool[r.ret] = [value |-> v, next |-> h]
        /\ \A x \in 1..Len(pool) : x # r.ret => r.pool[x] = pool[x]

\* Two free nodes and a node in use: a push takes the first free node and
\* leaves the second as free_nodes.
C11_Witness ==
  /\ Len(pool) = 3 /\ free_nodes # end /\ pool[free_nodes].next # end
  /\ \E h \in 1..Len(pool) :
       /\ h # free_nodes /\ h # pool[free_nodes].next
       /\ push(pool, free_nodes, 30, h).ret = free_nodes
       /\ push(pool, free_nodes, 30, h).free_nodes = pool[free_nodes].next

\* C12: a pop(head) that throws nothing returns the next(head) of before the
\* call, sets next(head) to the old free_nodes and free_nodes to head, and
\* leaves the popped slot's value, every other slot and the length as they were.
C12_PopEffect ==
  \A h \in Handles :
    \A r \in {pop(pool, free_nodes, h)} :
      ~r.err =>
        /\ r.ret = pool[h].next
        /\ r.pool[h].next = free_nodes
        /\ r.free_nodes = h
        /\ r.pool[h].value = pool[h].value
        /\ Len(r.pool) = Len(pool)
        /\ \A x \in 1..Len(pool) : x # h => r.pool[x] = pool[x]

\* A pop of the head of a stack of two nodes while another node is free.
C12_Witness ==
  /\ free_nodes # end
  /\ \E h \in 1..Len(pool) :
       /\ h # free_nodes /\ pool[h].next # end /\ pool[h].next # free_nodes
       /\ pool[h].next # h
       /\ ~pop(pool, free_nodes, h).err
       /\ pop(pool, free_nodes, h).pool[h].next = free_nodes

\* C13: on the head h of a stack that is not empty, free_stack(h) leaves the
\* vector and free_nodes exactly as h = pop(h) repeated until it returns the
\* empty stack does (as many pops as the stack has nodes); the free nodes are
\* then the stack's slots, last one first, followed by the free nodes of before.
C13_FreeStackIsPops ==
  \A s \in Stacks : heads[s] # end =>
    \A f \in {free_stack(pool, free_nodes, heads[s])} :
      \A p \in {PopTimes(pool, free_nodes, heads[s], Len(Chain(pool, heads[s])))} :
        /\ ~f.err /\ ~f.hang /\ ~p.err
        /\ p.ret = end /\ f.ret = end
        /\ \A k \in 0..(Len(Chain(pool, heads[s])) - 1) :
             PopTimes(pool, free_nodes, heads[s], k).ret # end
        /\ f.pool = p.pool
        /\ f.free_nodes = p.free_nodes
        /\ Chain(f.pool, f.free_nodes)
             = Reverse(Chain(pool, heads[s])) \o Chain(pool, free_nodes)

\* A stack of two nodes to free, with a node free before.
C13_Witness ==
  \E s \in Stacks :
    /\ Len(Chain(pool, heads[s])) = 2 /\ free_nodes # end
    /\ Chain(free_stack(pool, free_nodes, heads[s]).pool,
             free_stack(pool, free_nodes, heads[s]).free_nodes)
         = <<pool[heads[s]].next, heads[s], free_nodes>>

\* The stacks' heads and free_nodes: where the chains start.
Starts == {<<"stack", s>> : s \in Stacks} \cup {<<"free", 0>>}

StartOf(c) == IF c[1] = "free" THEN free_nodes ELSE heads[c[2]]

\* C14: a slot lies on the chain of at most one stack, or on the chain of the
\* free nodes, never on two chains.
C14_ChainsDisjoint ==
  \A c, d \in Starts : c # d =>
    Slots(pool, StartOf(c)) \cap Slots(pool, StartOf(d)) = {}

\* Two stacks in use and a free node.
C14_Witness ==
  /\ free_nodes # end
  /\ \E a, b \in Stacks : a # b /\ heads[a] # end /\ heads[b] # end

\* The handle reached from h after n steps along next (the empty stack stays).
RECURSIVE After(_, _, _)
After(P, h, n) ==
  IF h = end \/ n = 0 THEN h ELSE After(P, P[h].next, n - 1)

\* C15: from the head of every stack and from free_nodes the next fields lead
\* to the empty stack within as many steps as the vector has nodes, through
\* no slot twice.
C15_Acyclic ==
  \A c \in Starts :
    /\ After(pool, StartOf(c), Len(pool)) = end
    /\ Cardinality(Slots(pool, StartOf(c))) = Len(Chain(pool, StartOf(c)))

\* A stack of two nodes whose nodes were used before, and a free node.
C15_Witness ==
  /\ free_nodes # end
  /\ \E s \in Stacks : Len(Chain(pool, heads[s])) = 2 /\ heads[s] < pool[heads[s]].next

\* The length of the vector after a call.
Size(r) == Len(r.pool)

\* C16: no call, whether it throws or not, makes the vector shorter: pop,
\* free_stack, reserve, empty, value, next, begin and an iteration leave its
\* length as it is, a push adds at most one node; so from each state to the
\* next the length never goes down.
C16_LengthMonotone ==
  /\ [](\A h \in Handles :
          /\ \A v \in Values :
               Size(push(pool, free_nodes, v, h)) \in {Len(pool), Len(pool) + 1}
          /\ Size(pop(pool, free_nodes, h)) = Len(pool)
          /\ Size(free_stack(pool, free_nodes, h)) = Len(pool)
          /\ Size(empty(pool, free_nodes, h)) = Len(pool)
          /\ Size(value(pool, free_nodes, h)) = Len(pool)
          /\ Size(next(pool, free_nodes, h)) = Len(pool)
          /\ Size(begin(pool, free_nodes, h)) = Len(pool)
          /\ \A n \in 0..MaxLen : Size(reserve(pool, free_nodes, n)) = Len(pool))
  /\ [][Len(pool') >= Len(pool)]_vars

\* A vector of three nodes, one of them free, after pushes and a pop.
C16_Witness ==
  Len(pool) = 3 /\ free_nodes # end

\* The values of a chain of nodes, from its first node on.
ValuesOf(P, h) == [i \in 1..Len(Chain(P, h)) |-> P[Chain(P, h)[i]].value]

\* C17: for the head of every stack, the loop from begin(h) that dereferences
\* and advances until the iterator equals end(h) stops after as many steps as
\* the stack is long, yields the stack's values from the head to the sentinel,
\* the value pushed last first, dereferences the sentinel never, throws nothing,
\* and leaves the nodes, free_nodes and the length of the vector as they were.
C17_Iteration ==
  \A s \in Stacks :
    \A w \in {print_stack(pool, free_nodes, heads[s])} :
      /\ ~w.hang /\ ~w.err
      /\ w.steps = Len(Chain(pool, heads[s]))
      /\ w.steps = Len(hist[s])
      /\ w.ret = ValuesOf(pool, heads[s])
      /\ w.ret = Reverse(hist[s])
      /\ w.derefs = Slots(pool, heads[s])
      /\ end \notin w.derefs
      /\ w.pool = pool /\ w.free_nodes = free_nodes

\* A stack of two different values is iterated while the other stack is not
\* empty.
C17_Witness ==
  \E s, t \in Stacks :
    /\ s # t /\ hist[t] # <<>>
    /\ print_stack(pool, free_nodes, heads[s]).ret = <<20, 10>>

\* The lengths of the first n stacks, added up.
RECURSIVE TotalLength(_)
TotalLength(n) ==
  IF n = 0 THEN 0 ELSE Len(Chain(pool, heads[n])) + TotalLength(n - 1)

\* C18: with callers that pass only current heads, every slot 1..size of the
\* vector is in exactly one chain, a stack's or the free list's; so the lengths
\* of the stacks and of the free list add up to the size, and no slot is out of
\* reach of every head and of free_nodes.
C18_Partition ==
  /\ \A x \in 1..Len(pool) :
       Cardinality({c \in Starts : x \in Slots(pool, StartOf(c))}) = 1
  /\ TotalLength(Len(heads)) + Len(Chain(pool, free_nodes)) = Len(pool)
  /\ UNION {Slots(pool, StartOf(c)) : c \in Starts} = 1..Len(pool)

\* Three slots shared out between two stacks and the free list.
C18_Witness ==
  /\ Len(pool) = 3 /\ Len(Chain(pool, free_nodes)) = 1
  /\ \E a, b \in Stacks : a # b /\ heads[a] # end /\ heads[b] # end

\* C19: whatever handles the callers pass to push, pop and free_stack, stale
\* and made up ones too, and whether the calls throw or not, free_nodes and the
\* next of every node stay within 0..size, so node(x) = pool[x-1] is reached
\* only with 1 <= x <= size.
C19_RangeClosure ==
  /\ free_nodes \in 0..Len(pool)
  /\ \A x \in 1..Len(pool) : pool[x].next \in 0..Len(pool)
  /\ free_nodes # end => (free_nodes - 1) \in DOMAIN ZeroBased(pool)
  /\ \A x \in 1..Len(pool) :
       pool[x].next # end => (pool[x].next - 1) \in DOMAIN ZeroBased(pool)

\* A push with a stale handle has made a node its own next, and a node is free.
C19_Witness ==
  /\ free_nodes # end
  /\ \E x \in 1..Len(pool) : pool[x].next = x

\* C20: when pop(h) returns and pop(h) is called again at once, the second
\* call throws Invalid_input and leaves the nodes and free_nodes as the first
\* call left them, h being the first free node by then.
C20_DoublePop ==
  \A h \in Handles :
    \A first \in {pop(pool, free_nodes, h)} :
      ~first.err =>
        \A second \in {pop(first.pool, first.free_nodes, h)} :
          /\ first.free_nodes = h
          /\ second.err
          /\ second.pool = first.pool
          /\ second.free_nodes = first.free_nodes

\* A node that is not the first free one is popped while another node is
\* free, and the pop repeated at once throws.
C20_Witness ==
  /\ free_nodes # end
  /\ \E h \in Handles :
       /\ ~pop(pool, free_nodes, h).err
       /\ pop(pop(pool, free_nodes, h).pool, h, h).err

====
